---- MODULE Spec2Model ----
(***************************************************************************)
(* Model of src/trumps-eyes.js: the webcam motion tracker that steers a    *)
(* pair of eyeballs towards the largest region of motion.                  *)
(*                                                                         *)
(* Positions (smoothX, smoothY, targetX, targetY) are JavaScript numbers   *)
(* in the source; here they are fixed-point integers, FP units per pixel.  *)
(* A frame image is described by the set of stepSize x stepSize pixel      *)
(* blocks that are lit with a colour; every other pixel is black.          *)
(***************************************************************************)
EXTENDS Integers, Sequences, FiniteSets, TLC

VARIABLES
    width, height,        \* canvas size (p5 width / height)
    capture,              \* video capture: [width, height, image]
    prevFrame,            \* previous frame: [width, height, layers]
    smoothX, smoothY,     \* smoothed eyeball position, fixed point
    motionDetected,       \* flag of the tracking state
    noMotionTimer,        \* idle counter of the tracking state
    gridWidth, gridHeight,
    motionGrid,           \* [<<gx, gy>> -> 0 or 1]
    frameCount,           \* p5 frame counter
    blobs,                \* draw(): the blobs of the last frame, after the sort
    totalMotionPoints,    \* draw(): motion points of the last frame
    targetX, targetY,     \* draw(): the target of the last frame, fixed point
    scanned,              \* draw(): the scanning branch ran in the last frame
    outOfBounds,          \* draw(): prevFrame.pixels was read past its end
    idleRun,              \* history: consecutive latest frames that were not significant
    lastOp                \* "setup", "draw" or "windowResized"

vars == <<width, height, capture, prevFrame, smoothX, smoothY, motionDetected,
          noMotionTimer, gridWidth, gridHeight, motionGrid, frameCount, blobs,
          totalMotionPoints, targetX, targetY, scanned, outOfBounds, idleRun,
          lastOp>>

(***************************************************************************)
(* Program constants.                                                      *)
(***************************************************************************)
stepSize == 8
smoothingPercent == 5
calmDownSmoothingPercent == 1
calmDownThreshold == 60
scanAmplitude == 15
scanSpeedPerMille == 5
maxRadius == 70
motionThreshold == 45
areaThreshold == 1000

(***************************************************************************)
(* Bounds of the model.                                                    *)
(***************************************************************************)
FP == 100               \* fixed-point units per pixel
MaxFrames == 2          \* frames drawn in Spec
MaxIdleFrames == 63     \* frames drawn in SpecIdle
GridCols == 3           \* columns of the grids of SpecGrids
MaxTrackFrames == 75    \* frames drawn in SpecTrack

(***************************************************************************)
(* Arithmetic on JavaScript numbers.                                       *)
(***************************************************************************)
Abs(a) == IF a < 0 THEN -a ELSE a

\* a / b rounded to the nearest unit
Round(a, b) == IF a >= 0 THEN (2 * a + b) \div (2 * b) ELSE -((2 * (-a) + b) \div (2 * b))

floor(a, b) == a \div b

RECURSIVE SqrtFrom(_, _)
SqrtFrom(n, r) == IF (r + 1) * (r + 1) > n THEN r ELSE SqrtFrom(n, r + 1)

RECURSIVE SqrtFloor(_)
SqrtFloor(n) == IF n < 4 THEN SqrtFrom(n, 0) ELSE SqrtFrom(n, 2 * SqrtFloor(n \div 4))

\* the square root of n, rounded to the nearest unit
Sqrt(n) == LET r == SqrtFloor(n) IN IF n <= r * r + r THEN r ELSE r + 1

\* dist(x1, y1, x2, y2) squared
DistSq(x1, y1, x2, y2) == (x1 - x2) * (x1 - x2) + (y1 - y2) * (y1 - y2)

(***************************************************************************)
(* Frame images and pixel buffers.                                         *)
(***************************************************************************)
Black == <<0, 0, 0>>

\* what reading an array past its end yields
Undefined == <<>>

\* colour of pixel (x, y) of an image [lit, colour]
ImagePixel(img, x, y) ==
    IF <<x \div stepSize, y \div stepSize>> \in img.lit THEN img.colour ELSE Black

\* capture.pixels[index .. index + 2] for index = 4 * p
CapturePixel(cap, p) == ImagePixel(cap.image, p % cap.width, p \div cap.width)

RECURSIVE LayerPixel(_, _, _)
LayerPixel(layers, x, y) ==
    IF layers = <<>> THEN Black
    ELSE IF x < Head(layers).width /\ y < Head(layers).height
         THEN ImagePixel(Head(layers).image, x, y)
         ELSE LayerPixel(Tail(layers), x, y)

\* prevFrame.pixels[index .. index + 2] for index = 4 * p; undefined past the end
PrevPixel(prev, p) ==
    IF p >= prev.width * prev.height THEN Undefined
    ELSE LayerPixel(prev.layers, p % prev.width, p \div prev.width)

\* createImage(w, h): every pixel transparent black
createImage(w, h) == [width |-> w, height |-> h, layers |-> <<>>]

Min(a, b) == IF a < b THEN a ELSE b

\* prevFrame.copy(capture, 0, 0, cw, ch, 0, 0, cw, ch): the destination rectangle is
\* clipped to prevFrame, whose own size never changes
CopyInto(prev, cap) ==
    LET w == Min(cap.width, prev.width)
        h == Min(cap.height, prev.height)
        keep == SelectSeq(prev.layers, LAMBDA l : l.width > w \/ l.height > h)
    IN [prev EXCEPT !.layers = <<[width |-> w, height |-> h, image |-> cap.image]>> \o keep]

\* d > 45 for d = dist(r1, g1, b1, r2, g2, b2); NaN > 45 is false
Differs(c1, c2) ==
    /\ c2 # Undefined
    /\   (c1[1] - c2[1]) * (c1[1] - c2[1]) + (c1[2] - c2[2]) * (c1[2] - c2[2])
       + (c1[3] - c2[3]) * (c1[3] - c2[3]) > motionThreshold * motionThreshold

(***************************************************************************)
(* draw(), step 1: frame differencing (lines 93-127).                      *)
(***************************************************************************)
Cells(gw, gh) == {<<x, y>> : x \in 0..(gw - 1), y \in 0..(gh - 1)}

\* the pixels the two loops visit: x and y step by stepSize from 0
Samples(cap) ==
    {<<stepSize * i, stepSize * j>> :
        i \in 0..((cap.width - 1) \div stepSize), j \in 0..((cap.height - 1) \div stepSize)}

\* index / 4 for index = (x + y * capture.width) * 4
PixelIndex(cap, s) == s[1] + s[2] * cap.width

GridCell(s) == <<floor(s[1], stepSize), floor(s[2], stepSize)>>

\* the samples at which the grid is marked and totalMotionPoints is incremented
MotionSamples(cap, prev, gw, gh) ==
    {s \in Samples(cap) :
        /\ Differs(CapturePixel(cap, PixelIndex(cap, s)), PrevPixel(prev, PixelIndex(cap, s)))
        /\ GridCell(s)[1] < gw
        /\ GridCell(s)[2] < gh}

\* the grid after the reset loop and the marking of the motion samples ms
MarkGrid(ms, gw, gh) ==
    LET marked == {GridCell(s) : s \in ms}
    IN [c \in Cells(gw, gh) |-> IF c \in marked THEN 1 ELSE 0]

\* some read of prevFrame.pixels was past the end of the array
ReadsPastEnd(cap, prev) ==
    \E s \in Samples(cap) : PixelIndex(cap, s) >= prev.width * prev.height

(***************************************************************************)
(* draw(), step 2: blobs by breadth-first flood fill (lines 129-180).      *)
(* A blob is [xSum, ySum, count]; cells lists the points it counted, in    *)
(* the order they left the queue.                                          *)
(***************************************************************************)
\* Offsets with the four edge neighbours only
OffsetsEdges == <<<<0, -1>>, <<-1, 0>>, <<0, 0>>, <<1, 0>>, <<0, 1>>>>

\* <<dx, dy>> in the order of the two neighbour loops
Offsets ==
    <<<<-1, -1>>, <<0, -1>>, <<1, -1>>, <<-1, 0>>, <<0, 0>>, <<1, 0>>, <<-1, 1>>, <<0, 1>>,
      <<1, 1>>>>

InBounds(n, gw, gh) == n[1] >= 0 /\ n[1] < gw /\ n[2] >= 0 /\ n[2] < gh

RECURSIVE PushNeighbours(_, _, _, _, _, _, _)
\* the two neighbour loops around point, from offset number i
PushNeighbours(i, point, queue, visited, grid, gw, gh) ==
    IF i > Len(Offsets) THEN [queue |-> queue, visited |-> visited]
    ELSE LET n == <<point[1] + Offsets[i][1], point[2] + Offsets[i][2]>>
         IN IF InBounds(n, gw, gh) /\ grid[n] = 1 /\ n \notin visited
            THEN PushNeighbours(i + 1, point, Append(queue, n), visited \cup {n}, grid, gw, gh)
            ELSE PushNeighbours(i + 1, point, queue, visited, grid, gw, gh)

\* AddPoint that sums the corners of the cells instead of their centres
AddCorner(blob, point) ==
    [xSum |-> blob.xSum + point[1] * stepSize,
     ySum |-> blob.ySum + point[2] * stepSize,
     count |-> blob.count + 1,
     cells |-> Append(blob.cells, point)]

AddPoint(blob, point) ==
    [xSum |-> blob.xSum + point[1] * stepSize + stepSize \div 2,
     ySum |-> blob.ySum + point[2] * stepSize + stepSize \div 2,
     count |-> blob.count + 1,
     cells |-> Append(blob.cells, point)]

RECURSIVE FloodFill(_, _, _, _)
\* the while loop over the queue; st is [queue, visited, blob]
FloodFill(st, grid, gw, gh) ==
    IF st.queue = <<>> THEN st
    ELSE LET point == Head(st.queue)
             next == PushNeighbours(1, point, Tail(st.queue), st.visited, grid, gw, gh)
         IN FloodFill([queue |-> next.queue, visited |-> next.visited,
                       blob |-> AddPoint(st.blob, point)], grid, gw, gh)

EmptyBlob == [xSum |-> 0, ySum |-> 0, count |-> 0, cells |-> <<>>]

\* Visit without the test of visited[y][x]
VisitAgain(x, y, visited, found, grid, gw, gh) ==
    IF grid[<<x, y>>] = 1
    THEN LET r == FloodFill([queue |-> <<<<x, y>>>>, visited |-> visited \cup {<<x, y>>},
                             blob |-> EmptyBlob], grid, gw, gh)
         IN [visited |-> r.visited, found |-> Append(found, r.blob)]
    ELSE [visited |-> visited, found |-> found]

\* the body of the scan at cell <<x, y>>: a new blob from an unvisited motion cell
Visit(x, y, visited, found, grid, gw, gh) ==
    IF grid[<<x, y>>] = 1 /\ <<x, y>> \notin visited
    THEN LET r == FloodFill([queue |-> <<<<x, y>>>>, visited |-> visited \cup {<<x, y>>},
                             blob |-> EmptyBlob], grid, gw, gh)
         IN [visited |-> r.visited,
             found |-> IF r.blob.count > 0 THEN Append(found, r.blob) ELSE found]
    ELSE [visited |-> visited, found |-> found]

RECURSIVE ScanRow(_, _, _, _, _)
\* the inner loop of the scan over row y; st is [x, visited, found]
ScanRow(st, y, grid, gw, gh) ==
    IF st.x >= gw THEN st
    ELSE LET v == Visit(st.x, y, st.visited, st.found, grid, gw, gh)
         IN ScanRow([x |-> st.x + 1, visited |-> v.visited, found |-> v.found],
                    y, grid, gw, gh)

RECURSIVE ScanRows(_, _, _, _)
\* the outer loop of the scan; st is [y, visited, found]
ScanRows(st, grid, gw, gh) ==
    IF st.y >= gh THEN st
    ELSE LET row == ScanRow([x |-> 0, visited |-> st.visited, found |-> st.found],
                            st.y, grid, gw, gh)
         IN ScanRows([y |-> st.y + 1, visited |-> row.visited, found |-> row.found],
                     grid, gw, gh)

FindBlobs(grid, gw, gh) == ScanRows([y |-> 0, visited |-> {}, found |-> <<>>], grid, gw, gh).found

(***************************************************************************)
(* draw(), step 3: the largest blob, its mirrored centroid and the radius  *)
(* constraint (lines 182-204).                                             *)
(***************************************************************************)
RECURSIVE InsertFirst(_, _)
\* InsertBlob that puts b before the blobs of its own count
InsertFirst(sorted, b) ==
    IF sorted = <<>> THEN <<b>>
    ELSE IF b.count - Head(sorted).count >= 0 THEN <<b>> \o sorted
         ELSE <<Head(sorted)>> \o InsertFirst(Tail(sorted), b)

RECURSIVE InsertBlob(_, _)
\* b after every blob that does not compare greater than it: the sort is stable
InsertBlob(sorted, b) ==
    IF sorted = <<>> THEN <<b>>
    ELSE IF b.count - Head(sorted).count > 0 THEN <<b>> \o sorted
         ELSE <<Head(sorted)>> \o InsertBlob(Tail(sorted), b)

RECURSIVE SortBlobs(_)
\* blobs.sort((a, b) => b.count - a.count)
SortBlobs(bs) ==
    IF bs = <<>> THEN <<>> ELSE InsertBlob(SortBlobs(SubSeq(bs, 1, Len(bs) - 1)), bs[Len(bs)])

\* width / 2, height / 2
Half(w) == (w * FP) \div 2

\* MirroredX without the reflection
CentroidX(blob, w) == Round(blob.xSum * FP, blob.count)

\* the centroid of a blob, mirrored horizontally
MirroredX(blob, w) == w * FP - Round(blob.xSum * FP, blob.count)
CentroidY(blob) == Round(blob.ySum * FP, blob.count)

\* centre + cos(atan2(dy, dx)) * maxRadius, and the same with sin, for the offset
\* <<dx, dy>> of the target from the centre
OnCircle(cx, cy, tx, ty) ==
    LET d == Sqrt(DistSq(tx, ty, cx, cy))
    IN <<cx + Round((tx - cx) * maxRadius * FP, d), cy + Round((ty - cy) * maxRadius * FP, d)>>

\* Constrain without the radius constraint
Unconstrained(cx, cy, tx, ty) == <<tx, ty>>

Constrain(cx, cy, tx, ty) ==
    IF DistSq(tx, ty, cx, cy) > (maxRadius * FP) * (maxRadius * FP)
    THEN OnCircle(cx, cy, tx, ty)
    ELSE <<tx, ty>>

\* the target of a frame: the centre without blobs
Target(sorted, w, h) ==
    IF Len(sorted) > 0
    THEN Constrain(Half(w), Half(h), MirroredX(sorted[1], w), CentroidY(sorted[1]))
    ELSE <<Half(w), Half(h)>>

\* largestBlob.count * stepSize * stepSize > 1000
IsSignificant(sorted) == Len(sorted) > 0 /\ sorted[1].count * stepSize * stepSize > areaThreshold

(***************************************************************************)
(* draw(), smoothing and the calm-down scan (lines 206-232).               *)
(***************************************************************************)
\* from + (to - from) * percent / 100
Smooth(from, to, percent) == from + Round((to - from) * percent, 100)

\* 1000 * sin(a / 1000) and 1000 * cos(b / 10000) by their Taylor polynomials, which
\* are exact to a thousandth for the angles below half a radian that the model reaches
SinMilli(a) == a - (a * a * a) \div 6000000
CosMilli(b) == 1000 - (b * b) \div 200000

\* width / 2 + sin(frameCount * scanSpeed) * scanAmplitude
ScanX(w, fc) == Half(w) + Round(SinMilli(fc * scanSpeedPerMille) * scanAmplitude * FP, 1000)
\* height / 2 + cos(frameCount * scanSpeed * 0.7) * scanAmplitude
ScanY(h, fc) == Half(h) + Round(CosMilli(fc * scanSpeedPerMille * 7) * scanAmplitude * FP, 1000)

\* CalmDown that starts one frame early
CalmDownEarly(detected, timer) == ~detected /\ timer >= calmDownThreshold

\* the condition of the calm-down branch
CalmDown(detected, timer) == ~detected /\ timer > calmDownThreshold

\* Track whose branch without blobs leaves the idle counter alone
TrackNoCount(sorted, t, sx, sy, timer) ==
    IF Len(sorted) > 0 /\ IsSignificant(sorted)
    THEN [smoothX |-> Smooth(sx, t[1], smoothingPercent),
          smoothY |-> Smooth(sy, t[2], smoothingPercent),
          motionDetected |-> TRUE, noMotionTimer |-> 0]
    ELSE [smoothX |-> sx, smoothY |-> sy, motionDetected |-> FALSE,
          noMotionTimer |-> IF Len(sorted) > 0 THEN timer + 1 ELSE timer]

\* Track that lets the position decay toward the target in a frame without a
\* significant blob
TrackDecay(sorted, t, sx, sy, timer) ==
    IF Len(sorted) > 0 /\ IsSignificant(sorted)
    THEN [smoothX |-> Smooth(sx, t[1], smoothingPercent),
          smoothY |-> Smooth(sy, t[2], smoothingPercent),
          motionDetected |-> TRUE, noMotionTimer |-> 0]
    ELSE [smoothX |-> Smooth(sx, t[1], smoothingPercent),
          smoothY |-> Smooth(sy, t[2], smoothingPercent),
          motionDetected |-> FALSE, noMotionTimer |-> timer + 1]

\* lines 206-220: the tracking state after the significance test
Track(sorted, t, sx, sy, timer) ==
    IF Len(sorted) > 0
    THEN IF IsSignificant(sorted)
         THEN [smoothX |-> Smooth(sx, t[1], smoothingPercent),
               smoothY |-> Smooth(sy, t[2], smoothingPercent),
               motionDetected |-> TRUE, noMotionTimer |-> 0]
         ELSE [smoothX |-> sx, smoothY |-> sy,
               motionDetected |-> FALSE, noMotionTimer |-> timer + 1]
    ELSE [smoothX |-> sx, smoothY |-> sy,
          motionDetected |-> FALSE, noMotionTimer |-> timer + 1]

\* lines 222-232: the calm-down scan; scanned tells whether its branch ran
Calm(tr, w, h, fc) ==
    IF CalmDown(tr.motionDetected, tr.noMotionTimer)
    THEN [smoothX |-> Smooth(tr.smoothX, ScanX(w, fc), calmDownSmoothingPercent),
          smoothY |-> Smooth(tr.smoothY, ScanY(h, fc), calmDownSmoothingPercent),
          motionDetected |-> tr.motionDetected, noMotionTimer |-> tr.noMotionTimer,
          scanned |-> TRUE]
    ELSE [smoothX |-> tr.smoothX, smoothY |-> tr.smoothY,
          motionDetected |-> tr.motionDetected, noMotionTimer |-> tr.noMotionTimer,
          scanned |-> FALSE]

(***************************************************************************)
(* The history the claims about the idle counter speak of: a frame is      *)
(* significant when some blob exists and the largest count times the cell  *)
(* area exceeds the area threshold.                                        *)
(***************************************************************************)
Counts(bs) == {bs[i].count : i \in 1..Len(bs)}
SignificantFrame(bs) == \E n \in Counts(bs) : n * stepSize * stepSize > areaThreshold

(***************************************************************************)
(* The operations.                                                         *)
(***************************************************************************)
\* GridSize that rounds up
GridSizeUp(n) == floor(n + stepSize - 1, stepSize)

GridSize(n) == floor(n, stepSize)

EmptyGrid(gw, gh) == [c \in Cells(gw, gh) |-> 0]

NoImage == [lit |-> {}, colour |-> Black]

\* setup() in a window of size <<w, h>>
setup(w, h) ==
    /\ width = w
    /\ height = h
    /\ capture = [width |-> w, height |-> h, image |-> NoImage]
    /\ prevFrame = createImage(w, h)
    /\ smoothX = Half(w)
    /\ smoothY = Half(h)
    /\ gridWidth = GridSize(w)
    /\ gridHeight = GridSize(h)
    /\ motionGrid = EmptyGrid(GridSize(w), GridSize(h))
    /\ motionDetected = FALSE
    /\ noMotionTimer = 0
    /\ frameCount = 0
    /\ blobs = <<>>
    /\ totalMotionPoints = 0
    /\ targetX = Half(w)
    /\ targetY = Half(h)
    /\ scanned = FALSE
    /\ outOfBounds = FALSE
    /\ idleRun = 0
    /\ lastOp = "setup"

\* one draw() while the camera shows image img
draw(img) ==
    /\ frameCount' = frameCount + 1
    /\ capture' = [capture EXCEPT !.image = img]
    /\ outOfBounds' = ReadsPastEnd(capture', prevFrame)
    /\ LET ms == MotionSamples(capture', prevFrame, gridWidth, gridHeight)
       IN /\ totalMotionPoints' = Cardinality(ms)
          /\ motionGrid' = MarkGrid(ms, gridWidth, gridHeight)
    /\ LET found == FindBlobs(motionGrid', gridWidth, gridHeight)
       IN /\ blobs' = IF Len(found) > 0 THEN SortBlobs(found) ELSE found
          /\ idleRun' = IF SignificantFrame(found) THEN 0 ELSE idleRun + 1
    /\ LET t == Target(blobs', width, height)
           tr == Track(blobs', t, smoothX, smoothY, noMotionTimer)
           after == Calm(tr, width, height, frameCount')
       IN /\ targetX' = t[1]
          /\ targetY' = t[2]
          /\ scanned' = after.scanned
          /\ motionDetected' = after.motionDetected
          /\ noMotionTimer' = after.noMotionTimer
          /\ smoothX' = after.smoothX
          /\ smoothY' = after.smoothY
    /\ prevFrame' = CopyInto(prevFrame, capture')
    /\ lastOp' = "draw"
    /\ UNCHANGED <<width, height, gridWidth, gridHeight>>

\* windowResized() when the window has become <<w, h>>
windowResized(w, h) ==
    /\ width' = w
    /\ height' = h
    /\ capture' = [capture EXCEPT !.width = w, !.height = h]
    /\ gridWidth' = GridSize(w)
    /\ gridHeight' = GridSize(h)
    /\ motionGrid' = EmptyGrid(GridSize(w), GridSize(h))
    /\ smoothX' = Half(w)
    /\ smoothY' = Half(h)
    /\ lastOp' = "windowResized"
    /\ UNCHANGED <<prevFrame, motionDetected, noMotionTimer, frameCount, blobs,
                   totalMotionPoints, targetX, targetY, scanned, outOfBounds, idleRun>>

(***************************************************************************)
(* Inputs: window sizes and camera images.                                 *)
(***************************************************************************)
Bright == <<200, 200, 200>>
Dim == <<25, 25, 25>>

Block(x0, y0, w, h) == {<<x, y>> : x \in x0..(x0 + w - 1), y \in y0..(y0 + h - 1)}

Sizes == {<<32, 32>>, <<36, 40>>, <<160, 120>>}

Images ==
    { [lit |-> {}, colour |-> Bright],
      [lit |-> Block(0, 0, 3, 3), colour |-> Bright],
      [lit |-> Block(0, 0, 4, 4), colour |-> Bright],
      [lit |-> Block(0, 0, 1, 1) \cup Block(2, 0, 2, 1) \cup Block(0, 2, 2, 1), colour |-> Bright],
      [lit |-> Block(0, 0, 20, 15), colour |-> Dim] }

Init == \E s \in Sizes : setup(s[1], s[2])

Next ==
    \/ \E img \in Images : frameCount < MaxFrames /\ draw(img)
    \/ \E s \in Sizes : windowResized(s[1], s[2])

Spec == Init /\ [][Next]_vars

(***************************************************************************)
(* SpecGrids: the first frame after setup() over every image of a window   *)
(* of GridCols x 3 cells, so that every motion grid of that size is        *)
(* aggregated.                                                             *)
(***************************************************************************)
GridImages == {[lit |-> l, colour |-> Bright] : l \in SUBSET Cells(GridCols, 3)}

InitGrids == setup(GridCols * stepSize, 3 * stepSize)

NextGrids == \E img \in GridImages : frameCount = 0 /\ draw(img)

SpecGrids == InitGrids /\ [][NextGrids]_vars

(***************************************************************************)
(* SpecIdle: long runs of frames in which the camera shows either nothing  *)
(* or a fully lit picture, with windowResized() calls in between.          *)
(***************************************************************************)
IdleSizes == {<<32, 32>>}

IdleImages == {[lit |-> {}, colour |-> Bright], [lit |-> Block(0, 0, 4, 4), colour |-> Bright]}

InitIdle == \E s \in IdleSizes : setup(s[1], s[2])

NextIdle ==
    \/ \E img \in IdleImages : frameCount < MaxIdleFrames /\ draw(img)
    \/ \E s \in IdleSizes : windowResized(s[1], s[2])

SpecIdle == InitIdle /\ [][NextIdle]_vars

(***************************************************************************)
(* SpecTrack: long runs of frames in a tall window in which the picture    *)
(* changes in every frame, a bar at the top appearing and disappearing, so *)
(* that the position is drawn toward a target on the circle for as long as *)
(* it still moves, with windowResized() calls in between.                  *)
(***************************************************************************)
TrackSizes == {<<16, 304>>}

TrackImages == {[lit |-> {}, colour |-> Bright], [lit |-> Block(0, 0, 1, 16), colour |-> Bright]}

InitTrack == \E s \in TrackSizes : setup(s[1], s[2])

NextTrack ==
    \/ \E img \in TrackImages : frameCount < MaxTrackFrames /\ img # capture.image /\ draw(img)
    \/ \E s \in TrackSizes : windowResized(s[1], s[2])

SpecTrack == InitTrack /\ [][NextTrack]_vars

(***************************************************************************)
(* Properties of the blob aggregation.                                     *)
(***************************************************************************)
MotionCells == {c \in DOMAIN motionGrid : motionGrid[c] = 1}

\* how many times cell c was counted, over all blobs
TimesCounted(c) ==
    Cardinality({<<i, j>> \in (1..Len(blobs)) \X (1..Cardinality(DOMAIN motionGrid)) :
                    j <= Len(blobs[i].cells) /\ blobs[i].cells[j] = c})

RECURSIVE SumCounts(_)
SumCounts(bs) == IF bs = <<>> THEN 0 ELSE Head(bs).count + SumCounts(Tail(bs))

\* C1: after the blob-finding pass every cell marked 1 has been counted in exactly one
\* blob and no cell marked 0 in any, so the counts of the blobs add up to the number of
\* marked cells, which is totalMotionPoints.
C1_Partition ==
    lastOp = "draw" =>
        /\ \A c \in DOMAIN motionGrid : TimesCounted(c) = motionGrid[c]
        /\ \A i \in 1..Len(blobs) : blobs[i].count = Len(blobs[i].cells)
        /\ SumCounts(blobs) = Cardinality(MotionCells)
        /\ SumCounts(blobs) = totalMotionPoints

\* a frame with several blobs, one of them of several cells, and cells without motion
C1_Witness ==
    /\ lastOp = "draw"
    /\ Len(blobs) >= 2
    /\ \E i \in 1..Len(blobs) : blobs[i].count >= 3
    /\ Cardinality(MotionCells) < Cardinality(DOMAIN motionGrid)

Adjacent(a, b) == a # b /\ Abs(a[1] - b[1]) <= 1 /\ Abs(a[2] - b[2]) <= 1

RECURSIVE Reach(_)
\* the motion cells joined to the set s by paths of 8-adjacent motion cells
Reach(s) ==
    LET t == s \cup {c \in MotionCells : \E d \in s : Adjacent(c, d)}
    IN IF t = s THEN s ELSE Reach(t)

CellsOf(blob) == {blob.cells[j] : j \in 1..Len(blob.cells)}

\* C4: two motion cells are counted in the same blob exactly when a path of 8-adjacent
\* motion cells joins them; a motion cell without a motion cell among its 8 neighbours is
\* a blob of count 1 whose centroid is the centre of the cell's pixel block.
C4_Connectivity ==
    lastOp = "draw" =>
        /\ \A i \in 1..Len(blobs) : \A c \in CellsOf(blobs[i]) : CellsOf(blobs[i]) = Reach({c})
        /\ \A c \in MotionCells : \E i \in 1..Len(blobs) : c \in CellsOf(blobs[i])
        /\ \A c \in MotionCells :
              (\A d \in MotionCells : ~Adjacent(c, d)) =>
                  \E i \in 1..Len(blobs) :
                      /\ blobs[i].cells = <<c>>
                      /\ blobs[i].count = 1
                      /\ blobs[i].xSum = blobs[i].count * (c[1] * stepSize + stepSize \div 2)
                      /\ blobs[i].ySum = blobs[i].count * (c[2] * stepSize + stepSize \div 2)

\* two cells that touch only at a corner are in one blob, next to an isolated cell
C4_Witness ==
    /\ lastOp = "draw"
    /\ MotionCells = {<<1, 0>>, <<0, 1>>, <<2, 2>>}
    /\ Len(blobs) = 2

(***************************************************************************)
(* Properties of the tracking state.                                       *)
(***************************************************************************)
\* the latest frame was significant
LatestSignificant == frameCount > 0 /\ idleRun = 0

\* C2: after any frames and windowResized() calls noMotionTimer is the number of
\* consecutive latest frames without a significant blob, and motionDetected tells
\* whether the latest frame was significant; before any frame they are 0 and false.
C2_IdleCounter ==
    /\ noMotionTimer = idleRun
    /\ motionDetected = LatestSignificant
    /\ frameCount = 0 => (motionDetected = FALSE /\ noMotionTimer = 0)

\* two idle frames, the latest with a blob too small to be significant, then a resize
C2_Witness ==
    /\ lastOp = "windowResized"
    /\ noMotionTimer = 2
    /\ Len(blobs) > 0

\* a significant frame after an idle one
C2_WitnessReset ==
    /\ lastOp = "draw"
    /\ frameCount = 2
    /\ motionDetected
    /\ noMotionTimer = 0

\* C3: the scanning update is applied in a frame exactly when the frame is not
\* significant and the idle counter after its increment exceeds calmDownThreshold: in a
\* run of frames without a significant blob from the 61st on; a significant frame
\* resets the counter in that frame and applies no scanning update.
C3_Scanning ==
    /\ scanned = (~motionDetected /\ noMotionTimer > calmDownThreshold)
    /\ scanned = (idleRun >= calmDownThreshold + 1)
    /\ LatestSignificant => (noMotionTimer = 0 /\ ~scanned)

\* the 61st idle frame in a row: the first that scans
C3_Witness ==
    /\ lastOp = "draw"
    /\ scanned
    /\ noMotionTimer = calmDownThreshold + 1
    /\ smoothX # Half(width)

(***************************************************************************)
(* Properties of the grid and of the target.                               *)
(***************************************************************************)
Ceil(a, b) == (a + b - 1) \div b

\* the frame of the example: 160 x 120 pixels with motion in the cells (0,0)-(2,2) only
ExampleFrame ==
    /\ lastOp = "draw"
    /\ capture.width = 160
    /\ capture.height = 120
    /\ MotionCells = Block(0, 0, 3, 3)

\* C5 as stated: the grid of a 160 x 120 frame is 20 x 15 and the 3 x 3 block at the
\* origin gives one blob of count 9 with centroid (8, 8).
C5_Original ==
    ExampleFrame =>
        /\ gridWidth = 20 /\ gridHeight = 15
        /\ Len(blobs) = 1
        /\ blobs[1].count = 9
        /\ blobs[1].xSum = 8 * blobs[1].count
        /\ blobs[1].ySum = 8 * blobs[1].count

\* C5, amended: the grid of a 160 x 120 frame is 20 x 15 and the 3 x 3 block at the
\* origin gives one blob of count 9 with centroid (12, 12), the mean of the cell centres
\* 4, 12 and 20.
C5_Example ==
    ExampleFrame =>
        /\ gridWidth = 20 /\ gridHeight = 15
        /\ Len(blobs) = 1
        /\ blobs[1].count = 9
        /\ blobs[1].xSum = 12 * blobs[1].count
        /\ blobs[1].ySum = 12 * blobs[1].count

C5_Witness == ExampleFrame /\ frameCount = 1

\* cell a comes before cell b in the row-major scan
ScannedBefore(a, b) == a[2] < b[2] \/ (a[2] = b[2] /\ a[1] < b[1])

\* C6: with blobs, the target is that of a blob of maximum count, and among the blobs of
\* that count of the one whose starting cell comes first in the row-major scan; without
\* blobs the target is the canvas centre and the frame is not significant.
C6_LargestBlob ==
    lastOp = "draw" =>
        /\ Len(blobs) > 0 =>
              /\ \A i \in 2..Len(blobs) :
                    \/ blobs[i].count < blobs[1].count
                    \/ /\ blobs[i].count = blobs[1].count
                       /\ ScannedBefore(blobs[1].cells[1], blobs[i].cells[1])
              /\ <<targetX, targetY>> =
                    Constrain(Half(width), Half(height), MirroredX(blobs[1], width),
                              CentroidY(blobs[1]))
        /\ Len(blobs) = 0 =>
              /\ targetX = Half(width)
              /\ targetY = Half(height)
              /\ ~motionDetected

\* a blob found first but smaller, and two larger blobs of one count
C6_Witness ==
    /\ lastOp = "draw"
    /\ Len(blobs) = 3
    /\ blobs[1].count = blobs[2].count
    /\ blobs[3].count < blobs[1].count
    /\ ScannedBefore(blobs[3].cells[1], blobs[1].cells[1])

\* C7 as stated: after windowResized() both frame buffers have the new capture size, the
\* grid is recomputed, the smoothed position is the new centre, and neither the motion
\* flag nor the idle counter carries over.
C7_ResizeResets ==
    lastOp = "windowResized" =>
        /\ gridWidth = GridSize(capture.width) /\ gridHeight = GridSize(capture.height)
        /\ MotionCells = {}
        /\ capture.width = width /\ capture.height = height
        /\ prevFrame.width = capture.width /\ prevFrame.height = capture.height
        /\ smoothX = Half(width) /\ smoothY = Half(height)
        /\ motionDetected = FALSE
        /\ noMotionTimer = 0

\* C8 as stated: a draw() whose two frame buffers differ in size marks no cell as motion
\* and reads no index outside the previous frame buffer.
C8_MismatchShortCircuit ==
    (/\ lastOp = "draw"
     /\ (capture.width # prevFrame.width \/ capture.height # prevFrame.height)) =>
        /\ MotionCells = {}
        /\ totalMotionPoints = 0
        /\ ~outOfBounds

\* C9 as stated: the grid has ceil(capture.width / stepSize) columns and
\* ceil(capture.height / stepSize) rows, and every sampled pixel maps to a cell of it.
C9_Original ==
    /\ gridWidth = Ceil(capture.width, stepSize)
    /\ gridHeight = Ceil(capture.height, stepSize)
    /\ \A p \in Samples(capture) : GridCell(p) \in DOMAIN motionGrid

\* C9, amended: the grid has floor(capture.width / stepSize) columns and
\* floor(capture.height / stepSize) rows; a sampled pixel maps to a cell of it exactly
\* when it lies left of gridWidth * stepSize and above gridHeight * stepSize, and the
\* other samples, which exist when a size is no multiple of stepSize, fall outside the
\* grid and are left to the bounds test.
C9_GridSize ==
    /\ gridWidth = capture.width \div stepSize
    /\ gridHeight = capture.height \div stepSize
    /\ DOMAIN motionGrid = Cells(gridWidth, gridHeight)
    /\ \A p \in Samples(capture) :
          (GridCell(p) \in DOMAIN motionGrid)
              = (p[1] < gridWidth * stepSize /\ p[2] < gridHeight * stepSize)
    /\ (capture.width % stepSize # 0 \/ capture.height % stepSize # 0) =>
          \E p \in Samples(capture) : GridCell(p) \notin DOMAIN motionGrid

\* a window resized to a width that is no multiple of stepSize
C9_Witness ==
    /\ lastOp = "windowResized"
    /\ capture.width % stepSize # 0
    /\ gridWidth * stepSize < capture.width

\* the mirrored centroid of the largest blob
RawX == MirroredX(blobs[1], width)
RawY == CentroidY(blobs[1])
RawOutside == DistSq(RawX, RawY, Half(width), Half(height)) > (maxRadius * FP) * (maxRadius * FP)

\* C10: the target is the centroid of the largest blob mirrored horizontally; when that
\* point is farther than maxRadius from the centre the target is the point of the circle
\* of radius maxRadius at the same angle, otherwise it is that point, so the target is
\* never farther than maxRadius from the centre.  Distances are exact to the two
\* fixed-point units that rounding the coordinates may cost.
C10_Clamp ==
    (lastOp = "draw" /\ Len(blobs) > 0) =>
        LET cx == Half(width)
            cy == Half(height)
            d == Sqrt(DistSq(targetX, targetY, cx, cy))
        IN /\ Abs(RawX * blobs[1].count - (width * blobs[1].count - blobs[1].xSum) * FP)
                  <= blobs[1].count
           /\ Abs(RawY * blobs[1].count - blobs[1].ySum * FP) <= blobs[1].count
           /\ ~RawOutside => (targetX = RawX /\ targetY = RawY)
           /\ RawOutside =>
                 /\ Abs(d - maxRadius * FP) <= 2
                 /\ (targetX - cx) * (RawX - cx) + (targetY - cy) * (RawY - cy) > 0
                 /\ Abs((targetX - cx) * (RawY - cy) - (targetY - cy) * (RawX - cx))
                       <= Abs(RawX - cx) + Abs(RawY - cy)
           /\ d <= maxRadius * FP + 2

\* a largest blob whose mirrored centroid is outside the circle
C10_Witness ==
    /\ lastOp = "draw"
    /\ Len(blobs) > 0
    /\ RawOutside
    /\ targetX # RawX

(***************************************************************************)
(* Properties of the smoothed position.                                    *)
(***************************************************************************)
\* a frame without a significant blob whose idle counter stays within the threshold
IdleFrameStep ==
    /\ lastOp' = "draw"
    /\ frameCount' = frameCount + 1
    /\ idleRun' >= 1
    /\ noMotionTimer' <= calmDownThreshold

\* C11: a frame that has no significant blob and whose idle counter after the increment
\* is at most calmDownThreshold leaves smoothX and smoothY unchanged: the position stays
\* where tracking left it, without decay toward the centre, until the 61st idle frame
\* in a row.
C11_Frozen == [][IdleFrameStep => (smoothX' = smoothX /\ smoothY' = smoothY)]_vars

\* an idle frame within the threshold that kept a position away from the centre
C11_Witness ==
    /\ lastOp = "draw"
    /\ idleRun >= 1
    /\ noMotionTimer <= calmDownThreshold
    /\ ~scanned
    /\ (smoothX # Half(width) \/ smoothY # Half(height))

\* the squared distance of the smoothed position from the canvas centre
SmoothDistSq == DistSq(smoothX, smoothY, Half(width), Half(height))

\* C12: after setup(), in every state reached by draw() frames and windowResized()
\* calls, the smoothed position is at distance at most maxRadius from the canvas
\* centre.
C12_WithinRadius == SmoothDistSq <= (maxRadius * FP) * (maxRadius * FP)

\* the position has followed a clamped target to within two pixels of the circle
C12_Witness ==
    /\ lastOp = "draw"
    /\ motionDetected
    /\ RawOutside
    /\ SmoothDistSq >= ((maxRadius - 2) * FP) * ((maxRadius - 2) * FP)

====
